---------------------------- MODULE Spec2Model ----------------------------
(***************************************************************************)
(* A model of lurk: the result taxonomy of result.h and the configurable   *)
(* reporting of lurk.c (src/include/lurk.h, lines 27-252, is the           *)
(* implementation: it is the one that matches the declarations of          *)
(* result.h in src/unnamed/part_000; src/unnamed/part_001 is an earlier    *)
(* draft whose handlers return result_t and which does not compile against *)
(* that header).                                                           *)
(*                                                                         *)
(* A C pointer is a sequence of length at most one: NULL is <<>>, a        *)
(* pointer to x is <<x>>.  A C string is a TLA+ string.  A printf format   *)
(* is a sequence of pieces, each a literal text or the conversion "%08x",  *)
(* which consumes one int argument.                                        *)
(*                                                                         *)
(* A client program calls one library function at a time (pc = "idle"),    *)
(* the call runs to its return (pc = "returned") or to abort()             *)
(* (pc = "aborted"), and the variables ret, out, err, attempts, failed,    *)
(* clock and calls hold what that one call did.                            *)
(***************************************************************************)
EXTENDS Integers, Sequences, FiniteSets, TLC

VARIABLES
    result_config,  \* the static pointer of lurk.c: NULL or the address of a client record
    cfgs,           \* the client's result_config_t records, by address
    last_set,       \* history: the argument of the latest lurk_set_result_config call
    pc,             \* "idle" | "returned" | "aborted"
    op,             \* the call that ran last: its name and arguments
    ret,            \* NULL, or a pointer to the value the call returned
    out,            \* the texts the call wrote to stdout, one per successful write
    err,            \* the texts the call wrote to stderr, one per successful write
    attempts,       \* the number of fprintf/vfprintf calls the call made
    failed,         \* the write (1, 2, 3) that returned a negative value, 0 if none did
    clock,          \* the struct tm values get_time returned during the call
    calls           \* the handler invocations lurk made during the call

vars == <<result_config, cfgs, last_set, pc, op, ret, out, err, attempts,
          failed, clock, calls>>

obs == <<op, ret, out, err, attempts, failed, clock, calls>>

--------------------------------------------------------------------------
(* Pointers *)

NULL == <<>>

Ptr(x) == <<x>>

Deref(p) == p[1]

--------------------------------------------------------------------------
(* enum result *)

RESULT_INVALID_OBJECT == -2

RESULT_INTERNAL_ERROR == -3

RESULT_BAD_PARAM == -1

RESULT_SUCCESS == 0

RESULT_FAILURE == 1

RESULT_DONE == 2

--------------------------------------------------------------------------
(* Bounds and input sets *)

\* Results passed to the reporting calls range over -MaxResult .. MaxResult.
MaxResult == 1

Results == (0 - MaxResult) .. MaxResult

\* The addresses of the client's configuration records.
ConfigAddrs == {"cfgA", "cfgB"}

ConfigPtrs == {NULL} \cup {Ptr(a) : a \in ConfigAddrs}

\* What gmtime returns: NULL, or a pointer to a broken-down time.
Times == {NULL, Ptr([tm_hour |-> 9, tm_min |-> 5, tm_sec |-> 37])}

\* The write of a reporter whose fprintf/vfprintf returns a negative value
\* (0: every write succeeds).
Failures == 0 .. 3

\* (format, arguments) pairs: an absent format, the empty format, a plain
\* text, and the format of RETURN_PASS_ERROR with its argument.
FormatCalls ==
    { [fmt |-> NULL, args |-> <<>>],
      [fmt |-> Ptr(<<>>), args |-> <<>>],
      [fmt |-> Ptr(<<"queue empty">>), args |-> <<>>],
      [fmt |-> Ptr(<<"Callback trace, passing: [", "%08x", "].">>), args |-> <<-1>>] }

Callers == {NULL, Ptr("main")}

Locs == {NULL, Ptr("42")}

--------------------------------------------------------------------------
(* The compiled-in default and the records a client writes *)

result_config_default ==
    [ projname |-> Ptr("lurk"),
      prefix   |-> Ptr(""),
      postfix  |-> Ptr("\n"),
      do_log   |-> TRUE,
      do_err   |-> TRUE,
      log_fn   |-> Ptr("log_default"),
      err_fn   |-> Ptr("err_default") ]

\* A record of static storage no initialiser has touched: every field zero.
ZeroConfig ==
    [ projname |-> NULL, prefix |-> NULL, postfix |-> NULL,
      do_log |-> FALSE, do_err |-> FALSE, log_fn |-> NULL, err_fn |-> NULL ]

\* The designated initialisers the client uses; a field left out is zero.
ConfigLiterals ==
    { ZeroConfig,
      [ZeroConfig EXCEPT !.projname = Ptr("app")],
      [ZeroConfig EXCEPT !.do_log = TRUE, !.do_err = TRUE],
      [ZeroConfig EXCEPT !.projname = Ptr("app"), !.prefix = Ptr(">> "),
                         !.do_log = TRUE, !.do_err = TRUE,
                         !.log_fn = Ptr("custom_log"), !.err_fn = Ptr("custom_err")],
      [ZeroConfig EXCEPT !.do_err = TRUE,
                         !.log_fn = Ptr("custom_log"), !.err_fn = Ptr("custom_err")],
      [ZeroConfig EXCEPT !.do_log = TRUE,
                         !.log_fn = Ptr("custom_log"), !.err_fn = Ptr("custom_err")],
      [ZeroConfig EXCEPT !.projname = Ptr(""), !.prefix = Ptr(""), !.postfix = Ptr(""),
                         !.do_log = TRUE, !.do_err = TRUE],
      [ZeroConfig EXCEPT !.projname = Ptr("app"), !.postfix = Ptr(";"),
                         !.do_log = TRUE, !.do_err = TRUE,
                         !.log_fn = Ptr("custom_log")] }

--------------------------------------------------------------------------
(* Resolution of the active configuration *)

TheConfig == cfgs[Deref(result_config)]

\* Mutant: an empty project name read as unset, falling back to the default.
get_config_projname_empty_is_unset ==
    IF result_config = NULL THEN result_config_default.projname
    ELSE IF TheConfig.projname \in {NULL, Ptr("")} THEN result_config_default.projname
    ELSE TheConfig.projname

get_config_projname ==
    IF result_config = NULL THEN result_config_default.projname
    ELSE IF TheConfig.projname = NULL THEN result_config_default.projname
    ELSE TheConfig.projname

get_config_prefix ==
    IF result_config = NULL THEN result_config_default.prefix
    ELSE IF TheConfig.prefix = NULL THEN result_config_default.prefix
    ELSE TheConfig.prefix

get_config_postfix ==
    IF result_config = NULL THEN result_config_default.postfix
    ELSE IF TheConfig.postfix = NULL THEN result_config_default.postfix
    ELSE TheConfig.postfix

\* Mutant: a false flag of the override read as unset, falling back to the default.
get_config_do_log_false_is_unset ==
    IF result_config = NULL THEN result_config_default.do_log
    ELSE IF ~TheConfig.do_log THEN result_config_default.do_log
    ELSE TheConfig.do_log

\* Mutant: the flag read from the compiled-in record whatever is installed.
get_config_do_log_ignores_override == result_config_default.do_log

get_config_do_log ==
    IF result_config = NULL THEN result_config_default.do_log
    ELSE TheConfig.do_log

get_config_do_err ==
    IF result_config = NULL THEN result_config_default.do_err
    ELSE TheConfig.do_err

\* Mutant: the override's handler field never consulted.
get_config_log_fn_always_default == result_config_default.log_fn

get_config_log_fn ==
    IF result_config = NULL THEN result_config_default.log_fn
    ELSE IF TheConfig.log_fn = NULL THEN result_config_default.log_fn
    ELSE TheConfig.log_fn

get_config_err_fn ==
    IF result_config = NULL THEN result_config_default.err_fn
    ELSE IF TheConfig.err_fn = NULL THEN result_config_default.err_fn
    ELSE TheConfig.err_fn

--------------------------------------------------------------------------
(* Formatting *)

Digit == <<"0", "1", "2", "3", "4", "5", "6", "7", "8", "9",
           "a", "b", "c", "d", "e", "f">>

\* 16^i for i in 0 .. 7.
Pow16(i) == <<1, 16, 256, 4096, 65536, 1048576, 16777216, 268435456>>[i + 1]

\* The i-th hexadecimal digit of the 32-bit two's complement of r.
Nibble(r, i) == Digit[((r \div Pow16(i)) % 16) + 1]

\* Mutant: "%x" in place of "%08x": a value below 16 printed as one digit.
Hex8_unpadded(r) ==
    IF r \in 0 .. 15 THEN Nibble(r, 0)
    ELSE Nibble(r, 7) \o Nibble(r, 6) \o Nibble(r, 5) \o Nibble(r, 4) \o
         Nibble(r, 3) \o Nibble(r, 2) \o Nibble(r, 1) \o Nibble(r, 0)

\* "%08x" of an int: the value as unsigned, eight digits, zero padded.
Hex8(r) ==
    Nibble(r, 7) \o Nibble(r, 6) \o Nibble(r, 5) \o Nibble(r, 4) \o
    Nibble(r, 3) \o Nibble(r, 2) \o Nibble(r, 1) \o Nibble(r, 0)

\* "%02d" of a value in 0 .. 99.
Dec2(n) == Digit[(n \div 10) + 1] \o Digit[(n % 10) + 1]

\* vfprintf's text for a format and its arguments.
RECURSIVE VFormat(_, _)
VFormat(pieces, args) ==
    IF pieces = <<>> THEN ""
    ELSE IF Head(pieces) = "%08x"
         THEN Hex8(Head(args)) \o VFormat(Tail(pieces), Tail(args))
         ELSE Head(pieces) \o VFormat(Tail(pieces), args)

\* get_time: gmtime's value, or the zeroed struct tm when gmtime returns NULL.
get_time(tp) ==
    IF tp # NULL THEN Deref(tp) ELSE [tm_hour |-> 0, tm_min |-> 0, tm_sec |-> 0]

TimeText(t) == Dec2(t.tm_hour) \o ":" \o Dec2(t.tm_min) \o ":" \o Dec2(t.tm_sec)

\* The first write of log_default: "%02d:%02d:%02d  %08x  [%s]  %s".
LogHeader(t, result, projname, prefix) ==
    TimeText(t) \o "  " \o Hex8(result) \o "  [" \o projname \o "]  " \o prefix

\* The first write of err_default: "%02d:%02d:%02d  %08x  [%s:%s.%s]  %s".
ErrHeader(t, result, projname, caller, loc, prefix) ==
    TimeText(t) \o "  " \o Hex8(result) \o "  [" \o projname \o ":" \o caller
        \o "." \o loc \o "]  " \o prefix

--------------------------------------------------------------------------
(* The default reporters *)

\* What a call did: the value returned (NULL when the process aborted), the
\* writes, the clock readings and the handler invocations.
Quiet ==
    [ out |-> <<>>, err |-> <<>>, attempts |-> 0, failed |-> 0,
      clock |-> <<>>, aborted |-> FALSE ]

\* Mutant: the result of the second write (vfprintf) left unchecked.
WriteLine_unchecked_vfprintf(w, fail) ==
    IF fail = 1 THEN [written |-> <<>>, attempts |-> 1, failed |-> 1, aborted |-> TRUE]
    ELSE IF fail = 2
         THEN [written |-> <<w[1], w[3]>>, attempts |-> 3, failed |-> 2, aborted |-> FALSE]
    ELSE IF fail = 3
         THEN [written |-> <<w[1], w[2]>>, attempts |-> 3, failed |-> 3, aborted |-> TRUE]
    ELSE [written |-> w, attempts |-> 3, failed |-> 0, aborted |-> FALSE]

\* The three writes w of a line, of which write number fail fails: every write
\* before it is delivered, and abort() ends the process at the failing one.
WriteLine(w, fail) ==
    IF fail = 1 THEN [written |-> <<>>, attempts |-> 1, failed |-> 1, aborted |-> TRUE]
    ELSE IF fail = 2
         THEN [written |-> <<w[1]>>, attempts |-> 2, failed |-> 2, aborted |-> TRUE]
    ELSE IF fail = 3
         THEN [written |-> <<w[1], w[2]>>, attempts |-> 3, failed |-> 3, aborted |-> TRUE]
    ELSE [written |-> w, attempts |-> 3, failed |-> 0, aborted |-> FALSE]

\* Mutant: an empty format treated like an absent one.
log_default_skips_empty(result, fmt, args, tp, fail) ==
    IF fmt = NULL \/ fmt = Ptr(<<>>) THEN Quiet
    ELSE IF ~get_config_do_log THEN Quiet
    ELSE LET projname == Deref(get_config_projname)
             prefix   == Deref(get_config_prefix)
             postfix  == Deref(get_config_postfix)
             t        == get_time(tp)
             line     == WriteLine(<<LogHeader(t, result, projname, prefix),
                                     VFormat(Deref(fmt), args),
                                     postfix>>, fail)
         IN  [ out |-> line.written, err |-> <<>>, attempts |-> line.attempts,
               failed |-> line.failed, clock |-> <<t>>, aborted |-> line.aborted ]

log_default(result, fmt, args, tp, fail) ==
    IF fmt = NULL THEN Quiet
    ELSE IF ~get_config_do_log THEN Quiet
    ELSE LET projname == Deref(get_config_projname)
             prefix   == Deref(get_config_prefix)
             postfix  == Deref(get_config_postfix)
             t        == get_time(tp)
             line     == WriteLine(<<LogHeader(t, result, projname, prefix),
                                     VFormat(Deref(fmt), args),
                                     postfix>>, fail)
         IN  [ out |-> line.written, err |-> <<>>, attempts |-> line.attempts,
               failed |-> line.failed, clock |-> <<t>>, aborted |-> line.aborted ]

\* Mutant: the location's placeholder substituted only when the caller is
\* absent too (an absent location alone printed as printf prints NULL).
err_default_nested_placeholders(result, caller, loc, fmt, args, tp, fail) ==
    IF fmt = NULL THEN Quiet
    ELSE IF ~get_config_do_err THEN Quiet
    ELSE LET caller1  == IF caller = NULL THEN "(unknown)" ELSE Deref(caller)
             loc1     == IF loc # NULL THEN Deref(loc)
                         ELSE IF caller = NULL THEN "???" ELSE "(null)"
             t        == get_time(tp)
             projname == Deref(get_config_projname)
             prefix   == Deref(get_config_prefix)
             postfix  == Deref(get_config_postfix)
             line     == WriteLine(<<ErrHeader(t, result, projname, caller1, loc1, prefix),
                                     VFormat(Deref(fmt), args),
                                     postfix>>, fail)
         IN  [ out |-> <<>>, err |-> line.written, attempts |-> line.attempts,
               failed |-> line.failed, clock |-> <<t>>, aborted |-> line.aborted ]

err_default(result, caller, loc, fmt, args, tp, fail) ==
    IF fmt = NULL THEN Quiet
    ELSE IF ~get_config_do_err THEN Quiet
    ELSE LET caller1  == IF caller = NULL THEN "(unknown)" ELSE Deref(caller)
             loc1     == IF loc = NULL THEN "???" ELSE Deref(loc)
             t        == get_time(tp)
             projname == Deref(get_config_projname)
             prefix   == Deref(get_config_prefix)
             postfix  == Deref(get_config_postfix)
             line     == WriteLine(<<ErrHeader(t, result, projname, caller1, loc1, prefix),
                                     VFormat(Deref(fmt), args),
                                     postfix>>, fail)
         IN  [ out |-> <<>>, err |-> line.written, attempts |-> line.attempts,
               failed |-> line.failed, clock |-> <<t>>, aborted |-> line.aborted ]

--------------------------------------------------------------------------
(* The dispatch entry points *)

\* One handler invocation, as lurk made it.
Invocation(fn, result, caller, loc, fmt, args) ==
    [ fn |-> fn, result |-> result, caller |-> caller, loc |-> loc,
      fmt |-> fmt, args |-> args ]

\* A call that returned value without reaching a handler.
Returned(value) ==
    [ ret |-> Ptr(value), out |-> <<>>, err |-> <<>>, attempts |-> 0, failed |-> 0,
      clock |-> <<>>, calls |-> <<>>, aborted |-> FALSE ]

\* A call that invoked one handler, which did what r says, and then returned
\* value (unless the handler aborted the process).
Dispatched(value, invocation, r) ==
    [ ret |-> IF r.aborted THEN NULL ELSE Ptr(value),
      out |-> r.out, err |-> r.err, attempts |-> r.attempts, failed |-> r.failed,
      clock |-> r.clock, calls |-> <<invocation>>, aborted |-> r.aborted ]

\* (*log_fn)(result, fmt, args): the default reporter, or a handler of the
\* client, of which lurk sees nothing but that it returned.
call_log_fn(log_fn, result, fmt, args, tp, fail) ==
    IF Deref(log_fn) = "log_default" THEN log_default(result, fmt, args, tp, fail)
    ELSE Quiet

call_err_fn(err_fn, result, caller, loc, fmt, args, tp, fail) ==
    IF Deref(err_fn) = "err_default"
    THEN err_default(result, caller, loc, fmt, args, tp, fail)
    ELSE Quiet

\* Mutant: lurk_log returning a status of its own instead of its argument.
lurk_log_run_own_status(result, fmt, args, tp, fail) ==
    IF fmt = NULL THEN Returned(RESULT_BAD_PARAM)
    ELSE IF ~get_config_do_log THEN Returned(RESULT_SUCCESS)
    ELSE LET log_fn == get_config_log_fn
         IN  Dispatched(RESULT_SUCCESS,
                        Invocation(Deref(log_fn), result, NULL, NULL, fmt, args),
                        call_log_fn(log_fn, result, fmt, args, tp, fail))

lurk_log_run(result, fmt, args, tp, fail) ==
    IF fmt = NULL THEN Returned(result)
    ELSE IF ~get_config_do_log THEN Returned(result)
    ELSE LET log_fn == get_config_log_fn
         IN  Dispatched(result,
                        Invocation(Deref(log_fn), result, NULL, NULL, fmt, args),
                        call_log_fn(log_fn, result, fmt, args, tp, fail))

\* Mutant: lurk_err without its check of the format.
lurk_err_run_unchecked_fmt(result, caller, loc, fmt, args, tp, fail) ==
    IF ~get_config_do_err THEN Returned(result)
    ELSE LET err_fn == get_config_err_fn
         IN  Dispatched(result,
                        Invocation(Deref(err_fn), result, caller, loc, fmt, args),
                        call_err_fn(err_fn, result, caller, loc, fmt, args, tp, fail))

lurk_err_run(result, caller, loc, fmt, args, tp, fail) ==
    IF fmt = NULL THEN Returned(result)
    ELSE IF ~get_config_do_err THEN Returned(result)
    ELSE LET err_fn == get_config_err_fn
         IN  Dispatched(result,
                        Invocation(Deref(err_fn), result, caller, loc, fmt, args),
                        call_err_fn(err_fn, result, caller, loc, fmt, args, tp, fail))

\* RETURN_BAD_PARAM_NULL(config) inside lurk_get_defaults: LURK_ERROR_CALL is
\* lurk_err, __func__ is the function's name, LURK_LINE_STRING its line.
RETURN_BAD_PARAM_NULL_config(tp, fail) ==
    lurk_err_run(RESULT_BAD_PARAM, Ptr("lurk_get_defaults"), Ptr("159"),
                 Ptr(<<"Bad parameter [config]. Must not be [NULL]">>), <<>>, tp, fail)

--------------------------------------------------------------------------
(* The state machine *)

NoCall ==
    [ name |-> "none", result |-> 0, fmt |-> NULL, args |-> <<>>,
      caller |-> NULL, loc |-> NULL, config |-> NULL ]

Call(name, result, caller, loc, fmt, args, config) ==
    [ name |-> name, result |-> result, fmt |-> fmt, args |-> args,
      caller |-> caller, loc |-> loc, config |-> config ]

Init ==
    /\ result_config = NULL
    /\ cfgs = [a \in ConfigAddrs |-> ZeroConfig]
    /\ last_set = NULL
    /\ pc = "idle"
    /\ op = NoCall
    /\ ret = NULL
    /\ out = <<>>
    /\ err = <<>>
    /\ attempts = 0
    /\ failed = 0
    /\ clock = <<>>
    /\ calls = <<>>

\* The call c ran and did o.
Finish(c, o) ==
    /\ pc' = IF o.aborted THEN "aborted" ELSE "returned"
    /\ op' = c
    /\ ret' = o.ret
    /\ out' = o.out
    /\ err' = o.err
    /\ attempts' = o.attempts
    /\ failed' = o.failed
    /\ clock' = o.clock
    /\ calls' = o.calls

\* Mutant: a NULL argument leaving the installed override in place.
set_result_config_target_keeps_on_null(config) ==
    IF config = NULL THEN result_config ELSE config

\* The value lurk_set_result_config stores in the static pointer.
set_result_config_target(config) == config

\* Mutant: the record copied at installation into storage the client does
\* not write (the slot "cfgB"), the static pointer naming the copy.
lurk_set_result_config_copies(config) ==
    /\ pc = "idle"
    /\ result_config' = IF config = NULL THEN NULL ELSE Ptr("cfgB")
    /\ cfgs' = IF config = NULL THEN cfgs
               ELSE [cfgs EXCEPT !["cfgB"] = cfgs[Deref(config)]]
    /\ last_set' = config
    /\ Finish(Call("lurk_set_result_config", 0, NULL, NULL, NULL, <<>>, config),
              Returned(RESULT_SUCCESS))

lurk_set_result_config(config) ==
    /\ pc = "idle"
    /\ result_config' = set_result_config_target(config)
    /\ last_set' = config
    /\ Finish(Call("lurk_set_result_config", 0, NULL, NULL, NULL, <<>>, config),
              Returned(RESULT_SUCCESS))
    /\ UNCHANGED cfgs

\* Mutant: the NULL destination answered without a report.
lurk_get_defaults_run_silent(config, tp, fail) ==
    IF config = NULL THEN Returned(RESULT_BAD_PARAM)
    ELSE Returned(RESULT_SUCCESS)

lurk_get_defaults_run(config, tp, fail) ==
    IF config = NULL THEN RETURN_BAD_PARAM_NULL_config(tp, fail)
    ELSE Returned(RESULT_SUCCESS)

\* Mutant: the record filled with the defaults is installed as well.
lurk_get_defaults_installs(config, tp, fail) ==
    /\ pc = "idle"
    /\ cfgs' = IF config = NULL THEN cfgs
               ELSE [cfgs EXCEPT ![Deref(config)] = result_config_default]
    /\ Finish(Call("lurk_get_defaults", 0, NULL, NULL, NULL, <<>>, config),
              lurk_get_defaults_run(config, tp, fail))
    /\ result_config' = IF config = NULL THEN result_config ELSE config
    /\ UNCHANGED last_set

lurk_get_defaults(config, tp, fail) ==
    /\ pc = "idle"
    /\ cfgs' = IF config = NULL THEN cfgs
               ELSE [cfgs EXCEPT ![Deref(config)] = result_config_default]
    /\ Finish(Call("lurk_get_defaults", 0, NULL, NULL, NULL, <<>>, config),
              lurk_get_defaults_run(config, tp, fail))
    /\ UNCHANGED <<result_config, last_set>>

lurk_log(result, fmt, args, tp, fail) ==
    /\ pc = "idle"
    /\ Finish(Call("lurk_log", result, NULL, NULL, fmt, args, NULL),
              lurk_log_run(result, fmt, args, tp, fail))
    /\ UNCHANGED <<result_config, cfgs, last_set>>

lurk_err(result, caller, loc, fmt, args, tp, fail) ==
    /\ pc = "idle"
    /\ Finish(Call("lurk_err", result, caller, loc, fmt, args, NULL),
              lurk_err_run(result, caller, loc, fmt, args, tp, fail))
    /\ UNCHANGED <<result_config, cfgs, last_set>>

\* The default reporters have external linkage: a client (a handler of its
\* own that wraps the default, say) may enter them without lurk_log/lurk_err.
direct_log_default(result, fmt, args, tp, fail) ==
    /\ pc = "idle"
    /\ LET r == log_default(result, fmt, args, tp, fail)
       IN  Finish(Call("log_default", result, NULL, NULL, fmt, args, NULL),
                  [ ret |-> NULL, out |-> r.out, err |-> r.err,
                    attempts |-> r.attempts, failed |-> r.failed, clock |-> r.clock,
                    calls |-> <<>>, aborted |-> r.aborted ])
    /\ UNCHANGED <<result_config, cfgs, last_set>>

direct_err_default(result, caller, loc, fmt, args, tp, fail) ==
    /\ pc = "idle"
    /\ LET r == err_default(result, caller, loc, fmt, args, tp, fail)
       IN  Finish(Call("err_default", result, caller, loc, fmt, args, NULL),
                  [ ret |-> NULL, out |-> r.out, err |-> r.err,
                    attempts |-> r.attempts, failed |-> r.failed, clock |-> r.clock,
                    calls |-> <<>>, aborted |-> r.aborted ])
    /\ UNCHANGED <<result_config, cfgs, last_set>>

--------------------------------------------------------------------------
(* The predicates on results *)

RESULT_VALID_OBJECT == RESULT_SUCCESS

\* true and false of <stdbool.h>, as enumerators of type int.
RESULT_TRUE == 1

RESULT_FALSE == 0

is_success(result) ==
    IF result = RESULT_SUCCESS THEN TRUE ELSE FALSE

is_failure(result) ==
    IF result = RESULT_FAILURE THEN TRUE ELSE FALSE

is_valid_object(result) ==
    IF result = RESULT_VALID_OBJECT THEN TRUE ELSE FALSE

is_error(result) == result < 0

\* Mutant: every negative result taken for one of lurk's own errors.
is_lurk_err_any_negative(result) == result < 0

is_lurk_err(result) ==
    CASE result = RESULT_INVALID_OBJECT -> TRUE
      [] result = RESULT_INTERNAL_ERROR -> TRUE
      [] result = RESULT_BAD_PARAM      -> TRUE
      [] OTHER                          -> FALSE

\* Mutant: C truthiness, every nonzero result taken for True.
is_true_nonzero(result) ==
    IF result # RESULT_FALSE THEN TRUE ELSE FALSE

is_true(result) ==
    IF result = RESULT_TRUE THEN TRUE ELSE FALSE

is_false(result) ==
    IF result = RESULT_FALSE THEN TRUE ELSE FALSE

\* The results the client asks the predicates about.
MaxInput == 8

Inputs == (0 - MaxInput)..MaxInput

\* The client calls the predicate `name` on `result` and it answers `answer`.
predicate_call(name, result, answer) ==
    /\ pc = "idle"
    /\ Finish(Call(name, result, NULL, NULL, NULL, <<>>, NULL), Returned(answer))
    /\ UNCHANGED <<result_config, cfgs, last_set>>

call_is_success(result) == predicate_call("is_success", result, is_success(result))

call_is_failure(result) == predicate_call("is_failure", result, is_failure(result))

call_is_valid_object(result) ==
    predicate_call("is_valid_object", result, is_valid_object(result))

call_is_error(result) == predicate_call("is_error", result, is_error(result))

call_is_lurk_err(result) == predicate_call("is_lurk_err", result, is_lurk_err(result))

call_is_true(result) == predicate_call("is_true", result, is_true(result))

call_is_false(result) == predicate_call("is_false", result, is_false(result))

\* The client stores a whole record through a designated initialiser.
client_assign(a, v) ==
    /\ pc = "idle"
    /\ cfgs[a] # v
    /\ cfgs' = [cfgs EXCEPT ![a] = v]
    /\ UNCHANGED <<result_config, last_set, pc, obs>>

\* The fields of struct result_config.
Fields == {"projname", "prefix", "postfix", "do_log", "do_err", "log_fn", "err_fn"}

\* The values the client stores in a field: for a text field NULL, the empty
\* string and a text of its own; for a handler field NULL, the default
\* reporter and a handler of its own.
FieldValues(f) ==
    CASE f = "projname" -> {NULL, Ptr(""), Ptr("app")}
      [] f = "prefix"   -> {NULL, Ptr(""), Ptr(">> ")}
      [] f = "postfix"  -> {NULL, Ptr(""), Ptr(";")}
      [] f = "do_log"   -> BOOLEAN
      [] f = "do_err"   -> BOOLEAN
      [] f = "log_fn"   -> {NULL, Ptr("log_default"), Ptr("custom_log")}
      [] f = "err_fn"   -> {NULL, Ptr("err_default"), Ptr("custom_err")}

\* The client stores v in the field f of its record at a.
client_store(a, f, v) ==
    /\ pc = "idle"
    /\ cfgs[a][f] # v
    /\ cfgs' = [cfgs EXCEPT ![a][f] = v]
    /\ UNCHANGED <<result_config, last_set, pc, obs>>

\* The call has returned and the client goes on to its next statement.
client_continue ==
    /\ pc = "returned"
    /\ pc' = "idle"
    /\ op' = NoCall
    /\ ret' = NULL
    /\ out' = <<>>
    /\ err' = <<>>
    /\ attempts' = 0
    /\ failed' = 0
    /\ clock' = <<>>
    /\ calls' = <<>>
    /\ UNCHANGED <<result_config, cfgs, last_set>>

Next ==
    \/ \E config \in ConfigPtrs : lurk_set_result_config(config)
    \/ \E config \in ConfigPtrs, tp \in Times, fail \in Failures :
          lurk_get_defaults(config, tp, fail)
    \/ \E result \in Results, f \in FormatCalls, tp \in Times, fail \in Failures :
          lurk_log(result, f.fmt, f.args, tp, fail)
    \/ \E result \in Results, caller \in Callers, loc \in Locs, f \in FormatCalls,
          tp \in Times, fail \in Failures :
          lurk_err(result, caller, loc, f.fmt, f.args, tp, fail)
    \/ \E result \in Results, f \in FormatCalls, tp \in Times, fail \in Failures :
          direct_log_default(result, f.fmt, f.args, tp, fail)
    \/ \E result \in Results, caller \in Callers, loc \in Locs, f \in FormatCalls,
          tp \in Times, fail \in Failures :
          direct_err_default(result, caller, loc, f.fmt, f.args, tp, fail)
    \/ \E a \in ConfigAddrs, v \in ConfigLiterals : client_assign(a, v)
    \/ client_continue

Spec == Init /\ [][Next]_vars

--------------------------------------------------------------------------
(* Notions the properties share *)

\* The text of a stream: its writes, concatenated.
RECURSIVE Text(_)
Text(writes) == IF writes = <<>> THEN "" ELSE Head(writes) \o Text(Tail(writes))

\* The call named name has returned to the client.
Done(name) == pc = "returned" /\ op.name = name

\* The call named name has run: it returned, or the process aborted in it.
Ended(name) == pc # "idle" /\ op.name = name

\* An override is installed, and it is the record r.
Installed(r) == result_config # NULL /\ cfgs[Deref(result_config)] = r

\* The override's own flag is false (the compiled-in flags are both true).
LogDisabled == result_config # NULL /\ ~cfgs[Deref(result_config)].do_log

ErrDisabled == result_config # NULL /\ ~cfgs[Deref(result_config)].do_err

\* The handler field of the installed override, NULL when none is installed.
OverrideLogFn == IF result_config = NULL THEN NULL ELSE cfgs[Deref(result_config)].log_fn

OverrideErrFn == IF result_config = NULL THEN NULL ELSE cfgs[Deref(result_config)].err_fn

\* The call wrote nothing, invoked no handler and made no write attempt.
Silent == out = <<>> /\ err = <<>> /\ calls = <<>> /\ attempts = 0

\* Only the project name of r is set.
OnlyNameSet(r) == r.projname # NULL /\ [r EXCEPT !.projname = NULL] = ZeroConfig

--------------------------------------------------------------------------
(* C1 *)

\* C1: lurk_log(r, fmt, ...) and lurk_err(r, caller, loc, fmt, ...) with a
\* non-absent format return exactly r, in every configuration state and
\* whichever handler (custom or default) was invoked.
C1_ReturnsResult ==
    (pc = "returned" /\ op.name \in {"lurk_log", "lurk_err"} /\ op.fmt # NULL)
        => ret = Ptr(op.result)

\* lurk_err returned BadParam to its caller after a custom handler ran.
C1_Witness ==
    /\ Done("lurk_err")
    /\ op.fmt # NULL
    /\ op.result = RESULT_BAD_PARAM
    /\ Len(calls) = 1
    /\ calls[1].fn = "custom_err"
    /\ ret = Ptr(RESULT_BAD_PARAM)

--------------------------------------------------------------------------
(* C2 *)

\* C2 as stated: with an override in which only the project name is set, the
\* prefix, postfix, both flags and both handlers resolve to the compiled-in
\* values, so lurk_log and lurk_err still emit output.
C2_Original ==
    (result_config # NULL /\ OnlyNameSet(cfgs[Deref(result_config)]))
        => /\ get_config_prefix = result_config_default.prefix
           /\ get_config_postfix = result_config_default.postfix
           /\ get_config_do_log = result_config_default.do_log
           /\ get_config_do_err = result_config_default.do_err
           /\ get_config_log_fn = result_config_default.log_fn
           /\ get_config_err_fn = result_config_default.err_fn
           /\ (Done("lurk_log") /\ op.fmt # NULL => out # <<>>)
           /\ (Done("lurk_err") /\ op.fmt # NULL => err # <<>>)

\* C2, amended: with an override in which only the project name is set, the
\* project name resolves to the override's, and the prefix, the postfix and
\* both handlers resolve to the compiled-in values; the two flags have no
\* fallback and resolve to the override's own zero value, false, so lurk_log
\* and lurk_err write nothing, invoke no handler and return their result.
C2_FieldFallback ==
    (result_config # NULL /\ OnlyNameSet(cfgs[Deref(result_config)]))
        => /\ get_config_projname = cfgs[Deref(result_config)].projname
           /\ get_config_prefix = Ptr("")
           /\ get_config_postfix = Ptr("\n")
           /\ get_config_log_fn = Ptr("log_default")
           /\ get_config_err_fn = Ptr("err_default")
           /\ get_config_do_log = FALSE
           /\ get_config_do_err = FALSE
           /\ (Ended("lurk_log") \/ Ended("lurk_err")
                 => pc = "returned" /\ Silent /\ ret = Ptr(op.result))

\* lurk_log ran with a format under an override that sets the name alone.
C2_Witness ==
    /\ Installed([ZeroConfig EXCEPT !.projname = Ptr("app")])
    /\ Done("lurk_log")
    /\ op.fmt = Ptr(<<"queue empty">>)
    /\ out = <<>>

--------------------------------------------------------------------------
(* C3 *)

\* The first line the default configuration gives lurk_log's call op at
\* clock reading t.
DefaultLogLine(t) ==
    TimeText(t) \o "  " \o Hex8(op.result) \o "  [lurk]  "
        \o VFormat(Deref(op.fmt), op.args) \o "\n"

DefaultErrLine(t) ==
    TimeText(t) \o "  " \o Hex8(op.result) \o "  [lurk:"
        \o (IF op.caller = NULL THEN "(unknown)" ELSE Deref(op.caller)) \o "."
        \o (IF op.loc = NULL THEN "???" ELSE Deref(op.loc)) \o "]  "
        \o VFormat(Deref(op.fmt), op.args) \o "\n"

\* C3: the active configuration is the argument of the latest
\* lurk_set_result_config call, whatever was installed before it; every such
\* call returns RESULT_SUCCESS; and when that argument is NULL (as when no
\* call was ever made) every field resolves to the compiled-in value and
\* lurk_log and lurk_err write the lines of the default configuration,
\* whatever the client's records hold.
C3_LastWriterWins ==
    /\ result_config = last_set
    /\ Ended("lurk_set_result_config")
         => pc = "returned" /\ ret = Ptr(RESULT_SUCCESS) /\ result_config = op.config
              /\ Silent
    /\ last_set = NULL
         => /\ get_config_projname = Ptr("lurk")
            /\ get_config_prefix = Ptr("")
            /\ get_config_postfix = Ptr("\n")
            /\ get_config_do_log = TRUE
            /\ get_config_do_err = TRUE
            /\ get_config_log_fn = Ptr("log_default")
            /\ get_config_err_fn = Ptr("err_default")
            /\ (Done("lurk_log") /\ op.fmt # NULL
                  => Text(out) = DefaultLogLine(clock[1]) /\ err = <<>>)
            /\ (Done("lurk_err") /\ op.fmt # NULL
                  => Text(err) = DefaultErrLine(clock[1]) /\ out = <<>>)

\* lurk_set_result_config(NULL) returned while both of the client's records
\* hold values of their own, one of them with custom handlers.
C3_Witness ==
    /\ Done("lurk_set_result_config")
    /\ op.config = NULL
    /\ result_config = NULL
    /\ ret = Ptr(RESULT_SUCCESS)
    /\ cfgs["cfgA"].log_fn = Ptr("custom_log")
    /\ cfgs["cfgB"].projname = Ptr("app")

--------------------------------------------------------------------------
(* C4 *)

\* C4: with an absent format lurk_log and lurk_err return the result they
\* were given, write nothing and invoke no handler, in every configuration
\* state; and no handler invocation lurk makes carries a NULL format.
C4_AbsentFormat ==
    /\ ((Ended("lurk_log") \/ Ended("lurk_err")) /\ op.fmt = NULL)
         => pc = "returned" /\ ret = Ptr(op.result) /\ Silent
    /\ \A i \in DOMAIN calls : calls[i].fmt # NULL

\* lurk_err returned from a call with no format while an override with an
\* enabled error channel and a custom error handler was installed.
C4_Witness ==
    /\ Done("lurk_err")
    /\ op.fmt = NULL
    /\ result_config # NULL
    /\ ~ErrDisabled
    /\ OverrideErrFn = Ptr("custom_err")
    /\ ret = Ptr(op.result)
    /\ calls = <<>>

--------------------------------------------------------------------------
(* C5 *)

\* C5 as stated: under the default configuration lurk_log(r, "") and
\* lurk_log with no format both return r and write nothing to stdout.
C5_Original ==
    (Done("lurk_log") /\ result_config = NULL /\ op.fmt \in {NULL, Ptr(<<>>)})
        => ret = Ptr(op.result) /\ Text(out) = ""

\* C5, amended: under the default configuration lurk_log(r, "") returns r
\* and, its writes succeeding, writes one line to stdout and nothing to
\* stderr: the header (time, r as 8 hex digits, [lurk], empty prefix), an
\* empty message and the line terminator; only the absent (NULL) format
\* gives no output.
C5_EmptyFormat ==
    /\ (Done("lurk_log") /\ result_config = NULL /\ op.fmt = Ptr(<<>>))
         => /\ ret = Ptr(op.result)
            /\ err = <<>>
            /\ Len(clock) = 1
            /\ out = <<TimeText(clock[1]) \o "  " \o Hex8(op.result) \o "  [lurk]  ",
                       "", "\n">>
            /\ (op.result = RESULT_FAILURE /\ clock[1].tm_hour = 9
                  => Text(out) = "09:05:37  00000001  [lurk]  \n")
    /\ (Done("lurk_log") /\ result_config = NULL /\ op.fmt = NULL)
         => ret = Ptr(op.result) /\ out = <<>> /\ err = <<>>

\* lurk_log(Failure, "") returned under the default configuration.
C5_Witness ==
    /\ Done("lurk_log")
    /\ result_config = NULL
    /\ op.fmt = Ptr(<<>>)
    /\ op.result = RESULT_FAILURE
    /\ Len(out) = 3

--------------------------------------------------------------------------
(* C6 *)

\* C6: while the log channel is disabled lurk_log writes nothing, invokes no
\* handler and returns its result, and log_default, entered directly, returns
\* without a write; the same for lurk_err and err_default with the error
\* channel.
C6_DisabledChannel ==
    /\ (Ended("lurk_log") /\ LogDisabled)
         => pc = "returned" /\ Silent /\ ret = Ptr(op.result)
    /\ (Ended("lurk_err") /\ ErrDisabled)
         => pc = "returned" /\ Silent /\ ret = Ptr(op.result)
    /\ (Ended("log_default") /\ LogDisabled) => pc = "returned" /\ Silent
    /\ (Ended("err_default") /\ ErrDisabled) => pc = "returned" /\ Silent

\* lurk_log returned from a call with a format while an override with the
\* log channel off and a custom log handler was installed.
C6_Witness ==
    /\ Done("lurk_log")
    /\ op.fmt = Ptr(<<"queue empty">>)
    /\ LogDisabled
    /\ OverrideLogFn = Ptr("custom_log")
    /\ ret = Ptr(op.result)

--------------------------------------------------------------------------
(* C7 *)

\* The call invoked exactly one handler, fn, with its own arguments.
InvokedOnce(fn) ==
    calls = <<Invocation(fn, op.result, op.caller, op.loc, op.fmt, op.args)>>

\* C7 as stated: for an enabled channel and a format, one handler is invoked
\* once; with a non-null handler field in the override it is a custom
\* handler, the default reporter is not invoked and lurk writes nothing; the
\* default reporter is invoked only with no override or a null field.
C7_Original ==
    /\ (Ended("lurk_log") /\ op.fmt # NULL /\ ~LogDisabled)
         => /\ Len(calls) = 1
            /\ calls[1].result = op.result
            /\ (OverrideLogFn # NULL
                  => calls[1].fn # "log_default" /\ out = <<>> /\ err = <<>>
                       /\ attempts = 0)
            /\ (calls[1].fn = "log_default" => OverrideLogFn = NULL)
    /\ (Ended("lurk_err") /\ op.fmt # NULL /\ ~ErrDisabled)
         => /\ Len(calls) = 1
            /\ calls[1].result = op.result
            /\ (OverrideErrFn # NULL
                  => calls[1].fn # "err_default" /\ out = <<>> /\ err = <<>>
                       /\ attempts = 0)
            /\ (calls[1].fn = "err_default" => OverrideErrFn = NULL)

\* C7, amended: for an enabled channel and a format, lurk_log (lurk_err)
\* invokes exactly one handler exactly once, with the caller's result,
\* format and arguments (and caller and location): the function the
\* override's handler field points to when an override is installed and the
\* field is non-null, the default reporter otherwise.  When that function is
\* not the default reporter, the default reporter is not invoked and lurk
\* writes nothing.  The default reporter is invoked when there is no
\* override, when the field is null, and when the field holds the default
\* reporter's own address, as in a record lurk_get_defaults has filled.
C7_HandlerSelection ==
    /\ (Ended("lurk_log") /\ op.fmt # NULL /\ ~LogDisabled)
         => /\ InvokedOnce(IF OverrideLogFn = NULL THEN "log_default"
                           ELSE Deref(OverrideLogFn))
            /\ (calls[1].fn # "log_default"
                  => pc = "returned" /\ out = <<>> /\ err = <<>> /\ attempts = 0)
            /\ (calls[1].fn = "log_default" => attempts > 0 /\ err = <<>>)
    /\ (Ended("lurk_err") /\ op.fmt # NULL /\ ~ErrDisabled)
         => /\ InvokedOnce(IF OverrideErrFn = NULL THEN "err_default"
                           ELSE Deref(OverrideErrFn))
            /\ (calls[1].fn # "err_default"
                  => pc = "returned" /\ out = <<>> /\ err = <<>> /\ attempts = 0)
            /\ (calls[1].fn = "err_default" => attempts > 0 /\ out = <<>>)

\* lurk_err invoked the custom error handler with an absent caller, and lurk
\* wrote nothing.
C7_Witness ==
    /\ Done("lurk_err")
    /\ op.fmt # NULL
    /\ op.caller = NULL
    /\ OverrideErrFn = Ptr("custom_err")
    /\ InvokedOnce("custom_err")
    /\ err = <<>>

--------------------------------------------------------------------------
(* C8 *)

BadParamNullFmt == Ptr(<<"Bad parameter [config]. Must not be [NULL]">>)

\* C8 as stated: lurk_get_defaults(NULL) returns BadParam, writes nothing
\* and invokes no handler, in every configuration state.
C8_Original ==
    (Ended("lurk_get_defaults") /\ op.config = NULL)
        => pc = "returned" /\ ret = Ptr(RESULT_BAD_PARAM) /\ Silent

\* C8, amended: lurk_get_defaults(NULL) leaves the installed override and
\* the client's records unchanged, writes nothing to stdout and, when it
\* returns, returns BadParam; but it reports the error through
\* lurk_err(BadParam, "lurk_get_defaults", <line>, "Bad parameter [config].
\* Must not be [NULL]").  With the error channel disabled nothing is written
\* and no handler is invoked.  With it enabled exactly one error handler is
\* invoked: the override's, which leaves the streams alone, or the default
\* reporter, which writes one line to stderr (and aborts the process when a
\* write fails).
C8_NullDestination ==
    [][ (pc = "idle" /\ op'.name = "lurk_get_defaults" /\ op'.config = NULL)
          => /\ result_config' = result_config
             /\ cfgs' = cfgs
             /\ out' = <<>>
             /\ (pc' = "returned" => ret' = Ptr(RESULT_BAD_PARAM))
             /\ IF ErrDisabled
                THEN pc' = "returned" /\ err' = <<>> /\ calls' = <<>> /\ attempts' = 0
                ELSE /\ calls' = <<Invocation(IF OverrideErrFn = NULL THEN "err_default"
                                              ELSE Deref(OverrideErrFn),
                                              RESULT_BAD_PARAM, Ptr("lurk_get_defaults"),
                                              Ptr("159"), BadParamNullFmt, <<>>)>>
                     /\ (calls'[1].fn # "err_default"
                           => pc' = "returned" /\ err' = <<>> /\ attempts' = 0)
                     /\ (calls'[1].fn = "err_default" /\ pc' = "returned"
                           => Text(err') =
                                TimeText(clock'[1]) \o "  ffffffff  ["
                                  \o Deref(get_config_projname)
                                  \o ":lurk_get_defaults.159]  "
                                  \o Deref(get_config_prefix)
                                  \o "Bad parameter [config]. Must not be [NULL]"
                                  \o Deref(get_config_postfix))
                     /\ (calls'[1].fn = "err_default" /\ pc' = "aborted"
                           => ret' = NULL /\ failed' # 0)
       ]_vars

\* lurk_get_defaults(NULL) returned BadParam under the default configuration
\* after the default reporter wrote its line to stderr.
C8_Witness ==
    /\ Done("lurk_get_defaults")
    /\ op.config = NULL
    /\ result_config = NULL
    /\ ret = Ptr(RESULT_BAD_PARAM)
    /\ Len(calls) = 1
    /\ calls[1].fn = "err_default"
    /\ Text(err) = "00:00:00  ffffffff  [lurk:lurk_get_defaults.159]  "
                     \o "Bad parameter [config]. Must not be [NULL]\n"

--------------------------------------------------------------------------
(* C9 *)

\* C9: when one of the three writes of a line fails, the process is aborted
\* at that write: the call does not return, the failing write is the last
\* one attempted and exactly the writes before it were delivered; the
\* process aborts for no other reason; and a call whose writes all succeed
\* makes its three writes and returns.
C9_AbortOnFailedWrite ==
    /\ failed # 0
         => /\ pc = "aborted"
            /\ ret = NULL
            /\ attempts = failed
            /\ Len(out) + Len(err) = failed - 1
    /\ pc = "aborted" => failed # 0
    /\ (pc = "returned" /\ attempts # 0)
         => /\ attempts = 3
            /\ Len(out) + Len(err) = 3
            /\ (op.name \in {"lurk_log", "lurk_err"} => ret = Ptr(op.result))

\* The process aborted in lurk_log at the second write, the header written.
C9_Witness ==
    /\ op.name = "lurk_log"
    /\ pc = "aborted"
    /\ failed = 2
    /\ attempts = 2
    /\ Len(out) = 1
    /\ ret = NULL

--------------------------------------------------------------------------
(* C10 *)

\* The override leaves the log handler to the default reporter.
NoCustomLogFn == OverrideLogFn \in {NULL, Ptr("log_default")}

\* C10: with the log channel enabled and no custom log handler, a lurk_log
\* call that returns has written nothing to stderr and, to stdout, the time
\* as HH:MM:SS, the result as 8 zero-padded hex digits, the resolved project
\* name in brackets, the resolved prefix, the formatted message and the
\* resolved postfix, in this order; under the default configuration
\* lurk_log(Failure, "queue empty") writes 00000001, [lurk], no prefix and
\* one line terminator, and BadParam is written as ffffffff.
C10_LogLine ==
    /\ (Done("lurk_log") /\ op.fmt # NULL /\ ~LogDisabled /\ NoCustomLogFn)
         => /\ err = <<>>
            /\ Len(clock) = 1
            /\ Text(out) =
                 Dec2(clock[1].tm_hour) \o ":" \o Dec2(clock[1].tm_min) \o ":"
                   \o Dec2(clock[1].tm_sec) \o "  " \o Hex8(op.result) \o "  ["
                   \o Deref(get_config_projname) \o "]  "
                   \o Deref(get_config_prefix)
                   \o VFormat(Deref(op.fmt), op.args)
                   \o Deref(get_config_postfix)
    /\ (Done("lurk_log") /\ result_config = NULL /\ op.result = RESULT_FAILURE
          /\ op.fmt = Ptr(<<"queue empty">>))
         => Text(out) = TimeText(clock[1]) \o "  00000001  [lurk]  queue empty\n"
    /\ (Done("lurk_log") /\ result_config = NULL /\ op.result = RESULT_BAD_PARAM
          /\ op.fmt = Ptr(<<"queue empty">>) /\ clock[1].tm_hour = 9)
         => out = <<"09:05:37  ffffffff  [lurk]  ", "queue empty", "\n">>

\* lurk_log(Failure, "queue empty") returned under the default configuration.
C10_Witness ==
    /\ Done("lurk_log")
    /\ result_config = NULL
    /\ op.result = RESULT_FAILURE
    /\ op.fmt = Ptr(<<"queue empty">>)
    /\ Text(out) = "09:05:37  00000001  [lurk]  queue empty\n"
    /\ err = <<>>

--------------------------------------------------------------------------
(* C11 *)

\* The override leaves the error handler to the default reporter.
NoCustomErrFn == OverrideErrFn \in {NULL, Ptr("err_default")}

\* lurk_err(BadParam, caller, loc, "queue empty") returned under the default
\* configuration at 09:05:37.
DefaultErrCall(caller, loc) ==
    /\ Done("lurk_err")
    /\ result_config = NULL
    /\ op.result = RESULT_BAD_PARAM
    /\ op.fmt = Ptr(<<"queue empty">>)
    /\ op.caller = caller
    /\ op.loc = loc
    /\ clock = <<[tm_hour |-> 9, tm_min |-> 5, tm_sec |-> 37]>>

\* C11: with the error channel enabled and no custom error handler, a
\* lurk_err call that returns has written nothing to stdout and, to stderr,
\* one line whose tag is [project:caller.location], with "(unknown)" for an
\* absent caller and "???" for an absent location, each substituted
\* independently of the other; a custom error handler is handed the caller
\* and the location as they were passed, absent ones included.
C11_ErrLine ==
    /\ (Done("lurk_err") /\ op.fmt # NULL /\ ~ErrDisabled /\ NoCustomErrFn)
         => /\ out = <<>>
            /\ Len(clock) = 1
            /\ Text(err) =
                 TimeText(clock[1]) \o "  " \o Hex8(op.result) \o "  ["
                   \o Deref(get_config_projname) \o ":"
                   \o (IF op.caller = NULL THEN "(unknown)" ELSE Deref(op.caller))
                   \o "."
                   \o (IF op.loc = NULL THEN "???" ELSE Deref(op.loc))
                   \o "]  " \o Deref(get_config_prefix)
                   \o VFormat(Deref(op.fmt), op.args)
                   \o Deref(get_config_postfix)
    /\ DefaultErrCall(NULL, NULL)
         => Text(err) = "09:05:37  ffffffff  [lurk:(unknown).???]  queue empty\n"
    /\ DefaultErrCall(Ptr("main"), NULL)
         => Text(err) = "09:05:37  ffffffff  [lurk:main.???]  queue empty\n"
    /\ DefaultErrCall(NULL, Ptr("42"))
         => Text(err) = "09:05:37  ffffffff  [lurk:(unknown).42]  queue empty\n"
    /\ DefaultErrCall(Ptr("main"), Ptr("42"))
         => Text(err) = "09:05:37  ffffffff  [lurk:main.42]  queue empty\n"
    /\ (Ended("lurk_err") /\ op.fmt # NULL /\ ~ErrDisabled /\ ~NoCustomErrFn)
         => /\ calls = <<Invocation(Deref(OverrideErrFn), op.result, op.caller,
                                    op.loc, op.fmt, op.args)>>
            /\ out = <<>>
            /\ err = <<>>

\* lurk_err wrote the line of a call with a caller and no location.
C11_Witness ==
    /\ DefaultErrCall(Ptr("main"), NULL)
    /\ Text(err) = "09:05:37  ffffffff  [lurk:main.???]  queue empty\n"
    /\ out = <<>>

\* A custom error handler was handed an absent caller and an absent location.
C11_WitnessCustom ==
    /\ Done("lurk_err")
    /\ OverrideErrFn = Ptr("custom_err")
    /\ Len(calls) = 1
    /\ calls[1].caller = NULL
    /\ calls[1].loc = NULL

--------------------------------------------------------------------------
(* A client that classifies results *)

PredNext ==
    \/ \E result \in Inputs : call_is_success(result)
    \/ \E result \in Inputs : call_is_failure(result)
    \/ \E result \in Inputs : call_is_valid_object(result)
    \/ \E result \in Inputs : call_is_error(result)
    \/ \E result \in Inputs : call_is_lurk_err(result)
    \/ \E result \in Inputs : call_is_true(result)
    \/ \E result \in Inputs : call_is_false(result)
    \/ client_continue

PredSpec == Init /\ [][PredNext]_vars

\* The predicate `name` returned TRUE.
Answered(name) == Done(name) /\ ret = Ptr(TRUE)

--------------------------------------------------------------------------
(* C12 *)

\* C12: is_error answers true exactly for the negative results; is_lurk_err
\* answers true exactly for InvalidObject (-2), InternalError (-3) and
\* BadParam (-1), false for every other result, other negatives included;
\* whatever is_lurk_err accepts is_error accepts too, and neither accepts
\* Success, Failure or Done.
C12_ErrorPredicates ==
    /\ Done("is_error") => (ret = Ptr(TRUE) <=> op.result < 0)
    /\ Done("is_error") => ret \in {Ptr(TRUE), Ptr(FALSE)}
    /\ Done("is_lurk_err") => (ret = Ptr(TRUE) <=> op.result \in {-2, -3, -1})
    /\ Done("is_lurk_err") => ret \in {Ptr(TRUE), Ptr(FALSE)}
    /\ Answered("is_lurk_err") => is_error(op.result)
    /\ (Done("is_error") /\ ~(ret = Ptr(TRUE))) => ~is_lurk_err(op.result)
    /\ (Done("is_error") \/ Done("is_lurk_err"))
         => (op.result \in {RESULT_SUCCESS, RESULT_FAILURE, RESULT_DONE}
               => ret = Ptr(FALSE))

\* is_lurk_err rejected a negative result that is not one of lurk's own.
C12_Witness ==
    /\ Done("is_lurk_err")
    /\ op.result = -4
    /\ ret = Ptr(FALSE)

--------------------------------------------------------------------------
(* C13 *)

\* C13: is_success and is_valid_object answer alike, true exactly for 0;
\* is_true answers true exactly for 1 and is_false exactly for 0, so the two
\* never accept the same result; is_false answers as is_success does (False
\* and Success share the value 0) and is_true accepts exactly Failure.
C13_ValuePredicates ==
    /\ Done("is_success") => (ret = Ptr(TRUE) <=> op.result = 0)
    /\ Done("is_valid_object") => (ret = Ptr(TRUE) <=> op.result = 0)
    /\ Done("is_success") => ret = Ptr(is_valid_object(op.result))
    /\ Done("is_valid_object") => ret = Ptr(is_success(op.result))
    /\ Done("is_true") => (ret = Ptr(TRUE) <=> op.result = 1)
    /\ Done("is_false") => (ret = Ptr(TRUE) <=> op.result = 0)
    /\ Answered("is_true") => ~is_false(op.result)
    /\ Answered("is_false") => ~is_true(op.result)
    /\ Done("is_false") => ret = Ptr(is_success(op.result))
    /\ Done("is_true") => ret = Ptr(op.result = RESULT_FAILURE)
    /\ Done("is_true") => ret = Ptr(is_failure(op.result))
    /\ Done("is_failure") => ret = Ptr(is_true(op.result))
    /\ \A name \in {"is_success", "is_valid_object", "is_true", "is_false", "is_failure"} :
          Done(name) => ret \in {Ptr(TRUE), Ptr(FALSE)}

\* is_true rejected Done, a nonzero result that is not True.
C13_Witness ==
    /\ Done("is_true")
    /\ op.result = RESULT_DONE
    /\ ret = Ptr(FALSE)

--------------------------------------------------------------------------
(* A client that keeps one record and changes it field by field *)

FieldAddr == "cfgA"

FieldTime == Ptr([tm_hour |-> 9, tm_min |-> 5, tm_sec |-> 37])

FieldFmt == Ptr(<<"queue empty">>)

FieldNext ==
    \/ \E config \in {NULL, Ptr(FieldAddr)} : lurk_set_result_config(config)
    \/ lurk_get_defaults(Ptr(FieldAddr), FieldTime, 0)
    \/ lurk_log(RESULT_FAILURE, FieldFmt, <<>>, FieldTime, 0)
    \/ lurk_err(RESULT_FAILURE, Ptr("main"), Ptr("42"), FieldFmt, <<>>, FieldTime, 0)
    \/ \E f \in Fields : \E v \in FieldValues(f) : client_store(FieldAddr, f, v)
    \/ client_continue

FieldSpec == Init /\ [][FieldNext]_vars

\* What the library resolves for the field f.
Resolved(f) ==
    CASE f = "projname" -> get_config_projname
      [] f = "prefix"   -> get_config_prefix
      [] f = "postfix"  -> get_config_postfix
      [] f = "do_log"   -> get_config_do_log
      [] f = "do_err"   -> get_config_do_err
      [] f = "log_fn"   -> get_config_log_fn
      [] f = "err_fn"   -> get_config_err_fn

\* The values resolved are those of the compiled-in defaults.
ResolvesToDefaults ==
    /\ get_config_projname = Ptr("lurk")
    /\ get_config_prefix = Ptr("")
    /\ get_config_postfix = Ptr("\n")
    /\ get_config_do_log = TRUE
    /\ get_config_do_err = TRUE
    /\ get_config_log_fn = Ptr("log_default")
    /\ get_config_err_fn = Ptr("err_default")

\* This step is a store of the client into the installed record.
StoreInInstalled ==
    /\ pc = "idle"
    /\ pc' = "idle"
    /\ result_config # NULL
    /\ cfgs'[Deref(result_config)] # cfgs[Deref(result_config)]

--------------------------------------------------------------------------
(* C14 *)

\* lurk_get_defaults with a destination has returned.
C14_Filled ==
    Ended("lurk_get_defaults") /\ op.config # NULL
      => /\ pc = "returned"
         /\ ret = Ptr(RESULT_SUCCESS)
         /\ cfgs[Deref(op.config)] = result_config_default
         /\ Silent

\* With no override, or with a record as lurk_get_defaults filled it
\* installed, every field resolves to its default and the reporters write the
\* default lines.
C14_SameAsNoOverride ==
    /\ result_config = NULL => ResolvesToDefaults
    /\ Installed(result_config_default) => ResolvesToDefaults
    /\ (Done("lurk_log") /\ op.fmt # NULL /\ Installed(result_config_default))
         => Len(clock) = 1 /\ Text(out) = DefaultLogLine(clock[1]) /\ err = <<>>
    /\ (Done("lurk_err") /\ op.fmt # NULL /\ Installed(result_config_default))
         => Len(clock) = 1 /\ Text(err) = DefaultErrLine(clock[1]) /\ out = <<>>

\* A step of lurk_get_defaults with a destination leaves the static pointer
\* and every other record as they were.
C14_GetDefaultsStep ==
    (pc = "idle" /\ pc' # "idle" /\ op'.name = "lurk_get_defaults" /\ op'.config # NULL)
      => /\ result_config' = result_config
         /\ \A a \in ConfigAddrs : a # Deref(op'.config) => cfgs'[a] = cfgs[a]

\* A store into the installed record changes what is resolved for the fields
\* it changed, and for them only: a field left alone resolves as before, a
\* flag stored resolves to the flag, a pointer stored to the pointer, or to
\* the default when it is NULL.
C14_StoreStep ==
    StoreInInstalled
      => \A f \in Fields :
            LET old == cfgs[Deref(result_config)][f]
                new == cfgs'[Deref(result_config)][f]
            IN  /\ new = old => Resolved(f)' = Resolved(f)
                /\ new # old
                     => Resolved(f)' = IF f \in {"do_log", "do_err"} THEN new
                                       ELSE IF new = NULL THEN result_config_default[f]
                                       ELSE new

\* C14: lurk_get_defaults(c) with a non-null c returns RESULT_SUCCESS, leaves
\* the installed override pointer unchanged and fills c with the defaults, so
\* that with c installed every field resolves as it does with no override;
\* changing one field of c afterwards changes that field's resolved value
\* only.
C14_RoundTrip ==
    /\ [](C14_Filled /\ C14_SameAsNoOverride)
    /\ [][C14_GetDefaultsStep /\ C14_StoreStep]_vars

\* The installed record is the defaults with the prefix alone changed, and
\* lurk_log wrote the default line with that prefix.
C14_Witness ==
    /\ Installed([result_config_default EXCEPT !.prefix = Ptr(">> ")])
    /\ Done("lurk_log")
    /\ Text(out) = "09:05:37  00000001  [lurk]  >> queue empty\n"

--------------------------------------------------------------------------
(* C15 *)

\* The record handed to the latest lurk_set_result_config call, as it is now.
LastSetRecord == cfgs[Deref(last_set)]

\* A lurk_log or lurk_err call with a format acts on the fields the record
\* handed to the latest lurk_set_result_config call holds when the call is
\* made: a cleared flag silences it, a handler field selects the handler.
C15_CallSeesRecord ==
    /\ (Ended("lurk_log") /\ op.fmt # NULL /\ last_set # NULL)
         => IF ~LastSetRecord.do_log THEN Silent /\ pc = "returned"
            ELSE InvokedOnce(IF LastSetRecord.log_fn = NULL THEN "log_default"
                             ELSE Deref(LastSetRecord.log_fn))
    /\ (Ended("lurk_err") /\ op.fmt # NULL /\ last_set # NULL)
         => IF ~LastSetRecord.do_err THEN Silent /\ pc = "returned"
            ELSE InvokedOnce(IF LastSetRecord.err_fn = NULL THEN "err_default"
                             ELSE Deref(LastSetRecord.err_fn))
    /\ (Done("lurk_log") /\ op.fmt # NULL /\ last_set # NULL /\ LastSetRecord.do_log
          /\ LastSetRecord.log_fn = Ptr("custom_log"))
         => out = <<>> /\ err = <<>>
    /\ (Done("lurk_log") /\ op.fmt # NULL /\ last_set # NULL /\ LastSetRecord.do_log
          /\ LastSetRecord.log_fn # Ptr("custom_log"))
         => out # <<>> /\ err = <<>>

\* Whatever the client did to its records, the compiled-in defaults are
\* what they were: they are what resolves with no override and what
\* lurk_get_defaults hands out.
C15_DefaultsIntact ==
    /\ last_set = NULL => ResolvesToDefaults
    /\ (Done("lurk_get_defaults") /\ op.config # NULL)
         => cfgs[Deref(op.config)] =
              [ projname |-> Ptr("lurk"), prefix |-> Ptr(""), postfix |-> Ptr("\n"),
                do_log |-> TRUE, do_err |-> TRUE,
                log_fn |-> Ptr("log_default"), err_fn |-> Ptr("err_default") ]

\* A store of the client into the record handed to the latest
\* lurk_set_result_config call, with no call in between, is what the library
\* resolves from then on.
C15_StoreStep ==
    (pc = "idle" /\ pc' = "idle" /\ last_set # NULL
       /\ cfgs'[Deref(last_set)] # cfgs[Deref(last_set)])
      => /\ result_config' = result_config
         /\ last_set' = last_set
         /\ get_config_do_log' = cfgs'[Deref(last_set)].do_log
         /\ get_config_do_err' = cfgs'[Deref(last_set)].do_err
         /\ \A f \in Fields \ {"do_log", "do_err"} :
               Resolved(f)' = IF cfgs'[Deref(last_set)][f] = NULL
                              THEN result_config_default[f]
                              ELSE cfgs'[Deref(last_set)][f]

\* C15: lurk_set_result_config stores a reference: a field the client changes
\* in the record afterwards, without another lurk_set_result_config call, is
\* what the next lurk_log/lurk_err call acts on; and no operation modifies
\* the compiled-in defaults.
C15_ReferenceSemantics ==
    /\ [](C15_CallSeesRecord /\ C15_DefaultsIntact)
    /\ [][C15_StoreStep]_vars

\* The installed record is the defaults with do_log cleared, and lurk_log
\* returned without a word.
C15_Witness ==
    /\ Done("lurk_log")
    /\ last_set = Ptr(FieldAddr)
    /\ LastSetRecord = [result_config_default EXCEPT !.do_log = FALSE]
    /\ Silent
    /\ ret = Ptr(RESULT_FAILURE)

--------------------------------------------------------------------------
(* C16 *)

\* The text the library uses for a text field of the override that holds p:
\* the default's text d for NULL, the text p points to otherwise.
TextOr(p, d) == IF p = NULL THEN d ELSE Deref(p)

\* lurk_log returned from the default reporter under an installed override.
LoggedUnderOverride ==
    /\ Done("lurk_log")
    /\ op.fmt # NULL
    /\ result_config # NULL
    /\ ~LogDisabled
    /\ NoCustomLogFn

\* lurk_err returned from the default reporter under an installed override.
ErredUnderOverride ==
    /\ Done("lurk_err")
    /\ op.fmt # NULL
    /\ result_config # NULL
    /\ ~ErrDisabled
    /\ NoCustomErrFn

\* C16: of the text fields of an installed override only a NULL one falls
\* back to the default; an empty string is used as it is: an empty project
\* name gives the tag "[]" and not "[lurk]", an empty postfix a line without
\* the default line terminator.
C16_EmptyIsSet ==
    /\ result_config # NULL
         => /\ TheConfig.projname = NULL => get_config_projname = Ptr("lurk")
            /\ TheConfig.prefix = NULL => get_config_prefix = Ptr("")
            /\ TheConfig.postfix = NULL => get_config_postfix = Ptr("\n")
            /\ TheConfig.projname # NULL => get_config_projname = TheConfig.projname
            /\ TheConfig.prefix # NULL => get_config_prefix = TheConfig.prefix
            /\ TheConfig.postfix # NULL => get_config_postfix = TheConfig.postfix
            /\ TheConfig.projname = Ptr("") => Deref(get_config_projname) = ""
            /\ TheConfig.postfix = Ptr("") => Deref(get_config_postfix) = ""
    /\ LoggedUnderOverride
         => /\ Len(clock) = 1
            /\ Text(out) =
                 TimeText(clock[1]) \o "  " \o Hex8(op.result) \o "  ["
                   \o TextOr(TheConfig.projname, "lurk") \o "]  "
                   \o TextOr(TheConfig.prefix, "")
                   \o VFormat(Deref(op.fmt), op.args)
                   \o TextOr(TheConfig.postfix, "\n")
    /\ ErredUnderOverride
         => /\ Len(clock) = 1
            /\ Text(err) =
                 TimeText(clock[1]) \o "  " \o Hex8(op.result) \o "  ["
                   \o TextOr(TheConfig.projname, "lurk") \o ":"
                   \o TextOr(op.caller, "(unknown)") \o "." \o TextOr(op.loc, "???")
                   \o "]  " \o TextOr(TheConfig.prefix, "")
                   \o VFormat(Deref(op.fmt), op.args)
                   \o TextOr(TheConfig.postfix, "\n")
    /\ (LoggedUnderOverride /\ op.result = RESULT_FAILURE
          /\ op.fmt = FieldFmt /\ clock = <<Deref(FieldTime)>>)
         => /\ (TheConfig.projname = Ptr("") /\ TheConfig.prefix = NULL
                  /\ TheConfig.postfix = NULL)
                 => Text(out) = "09:05:37  00000001  []  queue empty\n"
            /\ (TheConfig.projname = NULL /\ TheConfig.prefix = NULL
                  /\ TheConfig.postfix = Ptr(""))
                 => Text(out) = "09:05:37  00000001  [lurk]  queue empty"
            /\ (TheConfig.projname = NULL /\ TheConfig.prefix = Ptr("")
                  /\ TheConfig.postfix = NULL)
                 => Text(out) = "09:05:37  00000001  [lurk]  queue empty\n"
            /\ (TheConfig.projname = Ptr("") /\ TheConfig.prefix = Ptr("")
                  /\ TheConfig.postfix = Ptr(""))
                 => Text(out) = "09:05:37  00000001  []  queue empty"

\* lurk_log wrote a line with the empty tag under an override whose project
\* name is the empty string and whose other text fields are NULL.
C16_Witness ==
    /\ LoggedUnderOverride
    /\ TheConfig.projname = Ptr("")
    /\ TheConfig.prefix = NULL
    /\ TheConfig.postfix = NULL
    /\ Text(out) = "09:05:37  00000001  []  queue empty\n"

\* lurk_log wrote a line without a terminator under an override whose
\* postfix is the empty string.
C16_WitnessPostfix ==
    /\ LoggedUnderOverride
    /\ TheConfig.projname = NULL
    /\ TheConfig.postfix = Ptr("")
    /\ Text(out) = "09:05:37  00000001  [lurk]  queue empty"

==========================================================================
